---------------------------- MODULE Spec2Model ----------------------------
(***************************************************************************)
(* The Pokemon card portfolio pipeline of Labs/Lab_04/pokemon_lab:         *)
(*   update_portfolio.py   _load_lookup_data, _load_inventory_data,        *)
(*                         update_portfolio (the ETL)                      *)
(*   generate_summary.py   generate_summary (the report)                   *)
(*   pipeline.py           run_production_pipeline (ETL, then report)      *)
(*                                                                         *)
(* Text is a tuple of one-character strings, so that str.strip() and the   *)
(* "+" of strings are computed and not assumed.  A DataFrame is the        *)
(* sequence of its rows, each row a function from column names to cells;   *)
(* where the set of columns varies (json_normalize, read_csv) the frame    *)
(* carries it beside the rows.  Prices are whole numbers of cents.         *)
(***************************************************************************)
EXTENDS Integers, Sequences, FiniteSets, TLC

(***************************************************************************)
(* Bounds of the model.                                                    *)
(***************************************************************************)
\* records over all lookup documents of one directory
MaxRecords == 2
\* data rows over all inventory tables of one directory
MaxRows == 2
\* data rows of a portfolio table handed to generate_summary on its own
MaxPortfolioRows == 3

(***************************************************************************)
(* Missing values.  pandas marks a missing cell NaN / pd.NA; neither is a  *)
(* price nor a text.                                                       *)
(***************************************************************************)
NaN == -1
NA == <<"<NA>">>

(***************************************************************************)
(* Text helpers.                                                           *)
(***************************************************************************)
RECURSIVE LStrip(_)
LStrip(s) == IF s = <<>> THEN s
             ELSE IF Head(s) = " " THEN LStrip(Tail(s)) ELSE s

RECURSIVE RStrip(_)
RStrip(s) == IF s = <<>> THEN s
             ELSE IF s[Len(s)] = " " THEN RStrip(SubSeq(s, 1, Len(s) - 1)) ELSE s

\* str.strip()
Strip(s) == RStrip(LStrip(s))

Hyphen == <<"-">>

\* the orders in which glob() may yield the files of a directory
Perms(S) == { p \in [1..Cardinality(S) -> S] :
                \A i, j \in 1..Cardinality(S) : i # j => p[i] # p[j] }

RECURSIVE Concat(_)
\* pd.concat(frames, ignore_index=True) on frames of equal columns
Concat(frames) == IF frames = <<>> THEN <<>>
                  ELSE Head(frames) \o Concat(Tail(frames))

(***************************************************************************)
(* Column names.                                                           *)
(***************************************************************************)
holo_col == "tcgplayer.prices.holofoil.market"
normal_col == "tcgplayer.prices.normal.market"
required_cols == <<"card_id", "set_id", "set_name", "name", "card_market_value">>
inventory_cols == <<"card_id", "card_name", "set_id", "card_number",
                    "binder_name", "page_number", "slot_number">>
inventory_required == <<"card_name", "set_id", "card_number",
                        "binder_name", "page_number", "slot_number">>
final_cols == <<"card_id", "card_name", "set_id", "card_number", "binder_name",
                "page_number", "slot_number", "set_name", "card_market_value",
                "index">>

Range(s) == { s[i] : i \in 1..Len(s) }

\* the missing value of a column: NaN in a price column, NA in a text column
Missing(c) == IF c \in {holo_col, normal_col, "card_market_value"} THEN NaN ELSE NA

\* Series.fillna(v) on a price column and on a text column
FillNaN(x, v) == IF x = NaN THEN v ELSE x

FillNA(x, v) == IF x = NA THEN v ELSE x

(***************************************************************************)
(* _load_lookup_data                                                       *)
(***************************************************************************)
\* pd.json_normalize(records, sep="."): the columns are the union of the
\* records' (dot-joined) keys, a key a record lacks is a missing cell
json_normalize(records) ==
    LET columns == UNION { DOMAIN records[i] : i \in 1..Len(records) }
    IN  [ columns |-> columns,
          rows |-> [ i \in 1..Len(records) |->
                       [ c \in columns |-> IF c \in DOMAIN records[i]
                                           THEN records[i][c] ELSE Missing(c) ] ] ]

\* a variant: the normal price examined before the holofoil price
card_market_value_normal_first(columns, row) ==
    LET v0 == 0
        v1 == IF normal_col \in columns THEN FillNaN(row[normal_col], 0) ELSE v0
    IN  IF holo_col \in columns
        THEN (IF v1 # 0 THEN v1 ELSE FillNaN(row[holo_col], 0))
        ELSE v1

\* lines 37-46, for one row of a frame with the given columns
card_market_value(columns, row) ==
    LET v0 == 0
        v1 == IF holo_col \in columns THEN FillNaN(row[holo_col], 0) ELSE v0
    IN  IF normal_col \in columns
        THEN (IF v1 # 0 THEN v1 ELSE FillNaN(row[normal_col], 0))
        ELSE v1

\* df.rename(columns={"id": "card_id", "set.id": "set_id", "set.name": "set_name"})
LookupSource(c) == CASE c = "card_id" -> "id"
                     [] c = "set_id" -> "set.id"
                     [] c = "set_name" -> "set.name"
                     [] OTHER -> c

\* lines 30-57: the frame one document contributes, as df[required_cols]
LookupFrame(records) ==
    LET df == json_normalize(records)
    IN  [ i \in 1..Len(records) |->
            [ c \in Range(required_cols) |->
                IF c = "card_market_value"
                THEN card_market_value(df.columns, df.rows[i])
                ELSE IF LookupSource(c) \in df.columns
                     THEN df.rows[i][LookupSource(c)]
                     ELSE NA ] ]

\* json.load raises on a file that is not JSON (lines 18-23)
JsonLoadRaises(doc) == doc.kind = "unparseable"

\* data.get("data", []) raises AttributeError when the top level of the
\* document is not an object (line 25, outside the try)
DataGetRaises(doc) == doc.kind = "list"

\* data.get("data", []) or []
DataRecords(doc) == IF doc.kind = "object" /\ doc.has_data THEN doc.data ELSE <<>>

\* the documents of the directory that contribute a frame, in discovery order
RECURSIVE LookupFrames(_, _)
LookupFrames(dir, order) ==
    IF order = <<>> THEN <<>>
    ELSE LET doc == dir[Head(order)]
             rest == LookupFrames(dir, Tail(order))
         IN  IF JsonLoadRaises(doc) THEN rest
             ELSE IF DataRecords(doc) = <<>> THEN rest
             ELSE <<LookupFrame(DataRecords(doc))>> \o rest

\* the index of the first row of the largest card_market_value
FirstMax(rows) ==
    CHOOSE i \in 1..Len(rows) :
        /\ \A j \in 1..Len(rows) : rows[j].card_market_value <= rows[i].card_market_value
        /\ \A j \in 1..(i - 1) : rows[j].card_market_value < rows[i].card_market_value

Remove(rows, i) == SubSeq(rows, 1, i - 1) \o SubSeq(rows, i + 1, Len(rows))

\* a variant: the frame left in concat order
sort_values_skipped(rows) == rows

\* sort_values("card_market_value", ascending=False): rows of equal value keep
\* their order (numpy sorts the short arrays of this model by insertion)
RECURSIVE sort_values(_)
sort_values(rows) ==
    IF rows = <<>> THEN <<>>
    ELSE LET i == FirstMax(rows)
         IN  <<rows[i]>> \o sort_values(Remove(rows, i))

\* a variant: every row kept
drop_duplicates_skipped(rows) == rows

\* drop_duplicates(subset=["card_id"], keep="first")
drop_duplicates(rows) ==
    LET keep == { i \in 1..Len(rows) :
                    \A j \in 1..(i - 1) : rows[j].card_id # rows[i].card_id }
        RECURSIVE Pick(_)
        Pick(i) == IF i > Len(rows) THEN <<>>
                   ELSE (IF i \in keep THEN <<rows[i]>> ELSE <<>>) \o Pick(i + 1)
    IN  Pick(1)

\* lines 14-68; raised: an exception left the function; all_lookup_df: the
\* function's list of frames when its loop ended
_load_lookup_data(dir, order) ==
    LET raised == \E i \in 1..Len(order) :
                     /\ ~JsonLoadRaises(dir[order[i]])
                     /\ DataGetRaises(dir[order[i]])
        all_lookup_df == LookupFrames(dir, order)
    IN  [ raised |-> raised,
          all_lookup_df |-> all_lookup_df,
          df |-> IF raised \/ all_lookup_df = <<>> THEN <<>>
                 ELSE drop_duplicates(sort_values(Concat(all_lookup_df))) ]

(***************************************************************************)
(* _load_inventory_data                                                    *)
(***************************************************************************)
\* pd.read_csv(csv_file, dtype=str): every cell a text, an empty cell missing
read_csv_str(table) ==
    [ i \in 1..Len(table.rows) |->
        [ c \in table.header |-> IF table.rows[i][c] = <<>> THEN NA
                                  ELSE table.rows[i][c] ] ]

\* df.rename(columns={..., "number": "card_number", "name": "card_name"}): the
\* column of the table that carries name c afterwards, "" when there is none
InventorySource(header, c) ==
    CASE c \in header -> c
      [] c = "card_number" /\ "number" \in header -> "number"
      [] c = "card_name" /\ "name" \in header -> "name"
      [] OTHER -> ""

\* lines 93-108: the cell of required column c, "" for a column synthesized
InventoryCell(header, row, c) ==
    IF InventorySource(header, c) = "" THEN <<>>
    ELSE FillNA(row[InventorySource(header, c)], <<>>)

\* lines 111-113
card_id(set_id, card_number) == Strip(set_id) \o Hyphen \o Strip(card_number)

\* lines 87-117: the frame one table contributes, as df[cols]
InventoryFrame(table) ==
    LET df == read_csv_str(table)
    IN  [ i \in 1..Len(df) |->
            [ c \in Range(inventory_cols) |->
                CASE c = "card_id" ->
                       card_id(InventoryCell(table.header, df[i], "set_id"),
                               InventoryCell(table.header, df[i], "card_number"))
                  [] c \in {"set_id", "card_number"} ->
                       Strip(InventoryCell(table.header, df[i], c))
                  [] OTHER -> InventoryCell(table.header, df[i], c) ] ]

\* pd.read_csv raises on a file it cannot read (lines 86-90)
ReadCsvRaises(table) == table.kind = "unreadable"

RECURSIVE InventoryFrames(_, _)
InventoryFrames(dir, order) ==
    IF order = <<>> THEN <<>>
    ELSE LET table == dir[Head(order)]
             rest == InventoryFrames(dir, Tail(order))
         IN  IF ReadCsvRaises(table) THEN rest
             ELSE <<InventoryFrame(table)>> \o rest

\* lines 82-123
_load_inventory_data(dir, order) == Concat(InventoryFrames(dir, order))

(***************************************************************************)
(* update_portfolio                                                        *)
(***************************************************************************)
\* line 172: lookup_df[["card_id", "set_name", "card_market_value"]]
lookup_sub(lookup_df) ==
    [ i \in 1..Len(lookup_df) |->
        [ c \in {"card_id", "set_name", "card_market_value"} |-> lookup_df[i][c] ] ]

\* the columns of a merged row: the inventory row's, and the lookup row's
Joined(left, set_name, value) ==
    [ c \in Range(inventory_cols) \cup {"set_name", "card_market_value"} |->
        CASE c = "set_name" -> set_name
          [] c = "card_market_value" -> value
          [] OTHER -> left[c] ]

\* a variant: how="inner", a row without a match is dropped
merge_inner(left_df, right_df) ==
    LET RECURSIVE Rows(_)
        Rows(i) ==
            IF i > Len(left_df) THEN <<>>
            ELSE LET match == SelectSeq(right_df,
                                  LAMBDA r : r.card_id = left_df[i].card_id)
                 IN  [ k \in 1..Len(match) |->
                         Joined(left_df[i], match[k].set_name,
                                match[k].card_market_value) ] \o Rows(i + 1)
    IN  Rows(1)

\* line 175: pd.merge(inventory_df, lookup_sub, on="card_id", how="left"): one
\* row per matching lookup row, and one of missing cells when none matches
merge_left(left_df, right_df) ==
    LET RECURSIVE Rows(_)
        Rows(i) ==
            IF i > Len(left_df) THEN <<>>
            ELSE LET match == SelectSeq(right_df,
                                  LAMBDA r : r.card_id = left_df[i].card_id)
                 IN  (IF match = <<>>
                      THEN << Joined(left_df[i], NA, NaN) >>
                      ELSE [ k \in 1..Len(match) |->
                               Joined(left_df[i], match[k].set_name,
                                      match[k].card_market_value) ]) \o Rows(i + 1)
    IN  Rows(1)

NOT_FOUND == <<"N", "O", "T", "_", "F", "O", "U", "N", "D">>

\* line 179: merged["set_name"].fillna("NOT_FOUND")
set_name_filled(x) == FillNA(x, NOT_FOUND)

\* line 188
index(row) == Strip(row.binder_name) \o Hyphen \o Strip(row.page_number)
                  \o Hyphen \o Strip(row.slot_number)

\* lines 178-195: the cleaned row, as merged[final_cols]
FinalRow(row) ==
    [ c \in Range(final_cols) |->
        CASE c = "card_market_value" -> FillNaN(row.card_market_value, 0)
          [] c = "set_name" -> set_name_filled(row.set_name)
          [] c = "index" -> index(row)
          [] OTHER -> row[c] ]

\* lines 172-195
final_df(inventory_df, lookup_df) ==
    LET merged == merge_left(inventory_df, lookup_sub(lookup_df))
    IN  [ i \in 1..Len(merged) |-> FinalRow(merged[i]) ]

\* DataFrame.to_csv(output_file, index=False): the header line, then one line
\* per row; a text cell is written as it is, a price as its digits
to_csv(columns, rows) == [ kind |-> "csv", header |-> columns, rows |-> rows ]

\* a variant: the file left as it was
empty_portfolio_unwritten(file) == file

\* lines 166-168
empty_portfolio(file) == to_csv(final_cols, <<>>)

(***************************************************************************)
(* generate_summary                                                        *)
(***************************************************************************)
\* os.path.exists(portfolio_file) (line 10)
Exists(file) == file.kind # "missing"

\* pd.read_csv raises on a file that is no table (lines 15-19)
ReadCsvFails(file) == file.kind = "unparseable"

\* pd.read_csv(portfolio_file): the columns of the header line; an empty cell
\* is read as missing, the digits of a price as the number
read_csv(file) ==
    [ columns |-> Range(file.header),
      rows |-> [ i \in 1..Len(file.rows) |->
                   [ c \in Range(file.header) |->
                       IF c = "card_market_value" THEN file.rows[i][c]
                       ELSE IF file.rows[i][c] = <<>> THEN NA
                       ELSE file.rows[i][c] ] ] ]

\* df.empty (line 22)
IsEmpty(df) == Len(df.rows) = 0 \/ df.columns = {}

RECURSIVE Sum(_)
\* Series.sum(): missing cells are skipped
Sum(values) == IF values = <<>> THEN 0
               ELSE FillNaN(Head(values), 0) + Sum(Tail(values))

\* lines 28-32
total_value(df) ==
    IF "card_market_value" \in df.columns
    THEN Sum([ i \in 1..Len(df.rows) |-> df.rows[i].card_market_value ])
    ELSE 0

\* a variant: the label of the last occurrence of the maximum
idxmax_last(rows) ==
    CHOOSE i \in 1..Len(rows) :
        /\ \A j \in 1..Len(rows) : rows[j].card_market_value <= rows[i].card_market_value
        /\ \A j \in (i + 1)..Len(rows) : rows[j].card_market_value < rows[i].card_market_value

\* Series.idxmax(): the label of the first occurrence of the maximum
idxmax(rows) == FirstMax(rows)

\* lines 36-39: the label of the most valuable row, 0 for None
most_valuable(df) ==
    IF "card_market_value" \in df.columns /\ ~IsEmpty(df) THEN idxmax(df.rows) ELSE 0

\* most_valuable_card['card_name'], most_valuable_card['card_id'] (lines 51-52)
\* raise KeyError on a row that has no such column
ReportRaises(df, card) ==
    card # 0 /\ ~({"card_name", "card_id"} \subseteq df.columns)

(***************************************************************************)
(* The inputs: the contents of the two directories and of the portfolio    *)
(* file.                                                                   *)
(***************************************************************************)
ID_A1 == <<"a", "-", "1">>
ID_B2 == <<"b", "-", "2">>
SET_S == <<"S">>
SET_T == <<"T">>

\* one element of a document's data array, flattened; NA or NaN for a key the
\* record does not carry
LookupRecord(id, set_name, holo, normal) ==
    [ k \in {"name"} \cup (IF id = NA THEN {} ELSE {"id"})
                     \cup (IF set_name = NA THEN {} ELSE {"set.name"})
                     \cup (IF holo = NaN THEN {} ELSE {holo_col})
                     \cup (IF normal = NaN THEN {} ELSE {normal_col}) |->
        CASE k = "name" -> <<"N">>
          [] k = "id" -> id
          [] k = "set.name" -> set_name
          [] k = holo_col -> holo
          [] k = normal_col -> normal ]

LookupRecords ==
    { LookupRecord(ID_A1, SET_S, h, n) : h \in {NaN, 0, 2}, n \in {NaN, 0, 1} }
    \cup { LookupRecord(ID_A1, SET_T, 2, NaN), LookupRecord(ID_B2, SET_S, 2, NaN),
           LookupRecord(NA, SET_S, 2, NaN), LookupRecord(ID_A1, NA, 2, NaN) }

Doc(kind, has_data, data) == [ kind |-> kind, has_data |-> has_data, data |-> data ]

Absent == Doc("absent", FALSE, <<>>)

\* the documents of n records; of none: no file, a file that is not JSON, a
\* top-level list, an object without "data", an object with an empty "data"
LookupDocs(n) ==
    IF n = 0
    THEN { Absent, Doc("unparseable", FALSE, <<>>), Doc("list", FALSE, <<>>),
           Doc("object", FALSE, <<>>), Doc("object", TRUE, <<>>) }
    ELSE { Doc("object", TRUE, d) : d \in [1..n -> LookupRecords] }

\* a directory: the files that exist, each with its contents
Dir(names, contents) ==
    [ f \in { names[i] : i \in { k \in 1..Len(names) : contents[k] # Absent } } |->
        contents[CHOOSE k \in 1..Len(names) : names[k] = f] ]

LookupFiles == <<"l1.json", "l2.json">>

LookupDirs ==
    UNION { { Dir(LookupFiles, <<d1, d2>>) : d1 \in LookupDocs(n[1]), d2 \in LookupDocs(n[2]) } :
            n \in { m \in (0..MaxRecords) \X (0..MaxRecords) : m[1] + m[2] <= MaxRecords } }

CoreLookupDirs ==
    { Dir(LookupFiles, <<Absent, Absent>>),
      Dir(LookupFiles, <<Doc("list", FALSE, <<>>), Absent>>),
      Dir(LookupFiles, <<Doc("object", TRUE, << LookupRecord(ID_A1, SET_S, 2, NaN),
                                                LookupRecord(ID_A1, SET_T, 1, NaN) >>), Absent>>),
      Dir(LookupFiles, <<Doc("object", TRUE, << LookupRecord(ID_A1, SET_S, 2, NaN) >>),
                         Doc("object", TRUE, << LookupRecord(ID_A1, SET_T, 2, NaN) >>)>>) }

\* the header lines of an inventory table: the canonical names, the alternate
\* spellings, and a table without the name and location columns
InventoryHeaders ==
    { Range(inventory_required),
      {"name", "set_id", "number", "binder_name", "page_number", "slot_number"},
      {"set_id", "card_number"} }

InventoryRow(header, set_id, card_number) ==
    [ c \in header |->
        CASE c = "set_id" -> set_id
          [] c \in {"card_number", "number"} -> card_number
          [] c \in {"card_name", "name"} -> <<"P", "i">>
          [] c = "binder_name" -> <<" ", "B">>
          [] c = "page_number" -> <<"7", " ">>
          [] c = "slot_number" -> <<>> ]

InventoryRows(header) ==
    { InventoryRow(header, <<" ", "a", " ">>, <<"1", " ">>),
      InventoryRow(header, <<"a">>, <<"1">>),
      InventoryRow(header, <<"c">>, <<"1">>) }

Table(kind, header, rows) == [ kind |-> kind, header |-> header, rows |-> rows ]

NoTable == Table("absent", {}, <<>>)

InventoryTables(n) ==
    (IF n = 0 THEN { NoTable, Table("unreadable", {}, <<>>) } ELSE {})
    \cup UNION { { Table("csv", h, r) : r \in [1..n -> InventoryRows(h)] } :
                 h \in InventoryHeaders }

InventoryFiles == <<"i1.csv", "i2.csv">>

TableDir(names, contents) ==
    [ f \in { names[i] : i \in { k \in 1..Len(names) : contents[k] # NoTable } } |->
        contents[CHOOSE k \in 1..Len(names) : names[k] = f] ]

InventoryDirs ==
    UNION { { TableDir(InventoryFiles, <<t1, t2>>) :
                t1 \in InventoryTables(n[1]), t2 \in InventoryTables(n[2]) } :
            n \in { m \in (0..MaxRows) \X (0..MaxRows) : m[1] + m[2] <= MaxRows } }

CanonicalRow(set_id, card_number) ==
    InventoryRow(Range(inventory_required), set_id, card_number)

CoreInventoryDirs ==
    { TableDir(InventoryFiles,
               << Table("csv", Range(inventory_required),
                        << CanonicalRow(<<" ", "a", " ">>, <<"1">>),
                           CanonicalRow(<<"a">>, <<"1", " ">>) >>), NoTable >>),
      TableDir(InventoryFiles,
               << Table("csv", Range(inventory_required),
                        << CanonicalRow(<<"a">>, <<"1">>) >>),
                  Table("csv", Range(inventory_required),
                        << CanonicalRow(<<"c">>, <<"1">>) >>) >>) }

\* what the two loaders may find
ETLInputs == (InventoryDirs \X CoreLookupDirs) \cup (CoreInventoryDirs \X LookupDirs)

PipelineInputs == InventoryDirs \X CoreLookupDirs

File(kind, header, rows) == [ kind |-> kind, header |-> header, rows |-> rows ]

NoFile == File("missing", <<>>, <<>>)

\* the header lines of a table handed to generate_summary: the portfolio's, and
\* tables that lack the value, the name or the identifier column
PortfolioHeaders ==
    { final_cols,
      <<"card_id", "card_name", "set_name">>,
      <<"card_id", "card_market_value">>,
      <<"card_name", "card_market_value">> }

PortfolioRow(header, name, value) ==
    [ c \in Range(header) |->
        CASE c = "card_market_value" -> value
          [] c = "card_name" -> name
          [] c = "card_id" -> ID_A1
          [] c = "set_name" -> SET_S
          [] OTHER -> <<>> ]

PortfolioFiles ==
    { NoFile, File("unparseable", <<>>, <<>>) }
    \cup UNION { UNION { { File("csv", h, r) :
                           r \in [1..n -> { PortfolioRow(h, nm, v) :
                                              nm \in { <<"P">>, <<"M">> }, v \in 0..2 }] } :
                         n \in 0..MaxPortfolioRows } :
                 h \in PortfolioHeaders }

(***************************************************************************)
(* The state.                                                              *)
(***************************************************************************)
VARIABLES
    entry,                  \* the entry operation that was started
    inventory_dir,          \* the inventory directory: file name -> table
    lookup_dir,             \* the lookup directory: file name -> document
    portfolio_file,         \* the portfolio table on disk
    pc,                     \* the statement the program is at
    inventory_order,        \* the order in which glob("*.csv") yielded the tables
    lookup_order,           \* the order in which glob("*.json") yielded the documents
    inventory_df,           \* update_portfolio's inventory_df
    all_lookup_df,          \* _load_lookup_data's all_lookup_df when it returned
    lookup_df,              \* update_portfolio's lookup_df
    etl,                    \* update_portfolio: idle, running, returned, raised
    summary,                \* generate_summary: idle, running, returned, exit1, raised
    total_portfolio_value,  \* generate_summary's total_portfolio_value
    most_valuable_card,     \* the label of generate_summary's most_valuable_card
    stderr,                 \* the diagnostics printed to sys.stderr
    stdout                  \* the lines printed to sys.stdout

vars == << entry, inventory_dir, lookup_dir, portfolio_file, pc, inventory_order,
           lookup_order, inventory_df, all_lookup_df, lookup_df, etl, summary,
           total_portfolio_value, most_valuable_card, stderr, stdout >>

inputs == << entry, inventory_dir, lookup_dir >>

Init ==
    /\ \/ /\ entry = "update_portfolio"
          /\ \E in \in ETLInputs : inventory_dir = in[1] /\ lookup_dir = in[2]
          /\ portfolio_file = NoFile
          /\ pc = "update_portfolio"
       \/ /\ entry = "pipeline"
          /\ \E in \in PipelineInputs : inventory_dir = in[1] /\ lookup_dir = in[2]
          /\ portfolio_file = NoFile
          /\ pc = "pipeline"
       \/ /\ entry = "generate_summary"
          /\ inventory_dir = << >>
          /\ lookup_dir = << >>
          /\ portfolio_file \in PortfolioFiles
          /\ pc = "generate_summary"
    /\ inventory_order = << >>
    /\ lookup_order = << >>
    /\ inventory_df = << >>
    /\ all_lookup_df = << >>
    /\ lookup_df = << >>
    /\ etl = "idle"
    /\ summary = "idle"
    /\ total_portfolio_value = 0
    /\ most_valuable_card = 0
    /\ stderr = {}
    /\ stdout = {}

\* where the caller of update_portfolio goes on when it returns
AfterETL == IF entry = "pipeline" THEN "pipeline_step2" ELSE "halt"

\* where the caller of generate_summary goes on when it returns
AfterSummary == IF entry = "pipeline" THEN "pipeline_end" ELSE "halt"

\* pipeline.py lines 10-14: the narration, then update_portfolio.main()
PipelineStart ==
    /\ pc = "pipeline"
    /\ stderr' = stderr \cup {"pipeline_start", "step1"}
    /\ pc' = "update_portfolio"
    /\ UNCHANGED << inputs, portfolio_file, inventory_order, lookup_order,
                    inventory_df, all_lookup_df, lookup_df, etl, summary, total_portfolio_value,
                    most_valuable_card, stdout >>

\* update_portfolio.py line 146
LoadInventory ==
    /\ pc = "update_portfolio"
    /\ \E order \in Perms(DOMAIN inventory_dir) :
          /\ inventory_order' = order
          /\ inventory_df' = _load_inventory_data(inventory_dir, order)
    /\ etl' = "running"
    /\ pc' = "load_lookup"
    /\ UNCHANGED << inputs, portfolio_file, lookup_order, all_lookup_df, lookup_df, summary,
                    total_portfolio_value, most_valuable_card, stderr, stdout >>

\* update_portfolio.py line 147, when _load_lookup_data returns
LoadLookup ==
    /\ pc = "load_lookup"
    /\ \E order \in Perms(DOMAIN lookup_dir) :
          /\ ~_load_lookup_data(lookup_dir, order).raised
          /\ lookup_order' = order
          /\ all_lookup_df' = _load_lookup_data(lookup_dir, order).all_lookup_df
          /\ lookup_df' = _load_lookup_data(lookup_dir, order).df
    /\ pc' = "merge"
    /\ UNCHANGED << inputs, portfolio_file, inventory_order, inventory_df, etl,
                    summary, total_portfolio_value, most_valuable_card, stderr, stdout >>

\* update_portfolio.py line 147, when _load_lookup_data raises: the exception
\* leaves update_portfolio and its callers
LoadLookupRaises ==
    /\ pc = "load_lookup"
    /\ \E order \in Perms(DOMAIN lookup_dir) :
          /\ _load_lookup_data(lookup_dir, order).raised
          /\ lookup_order' = order
    /\ etl' = "raised"
    /\ pc' = "halt"
    /\ UNCHANGED << inputs, portfolio_file, inventory_order, inventory_df, all_lookup_df, lookup_df,
                    summary, total_portfolio_value, most_valuable_card, stderr, stdout >>

\* update_portfolio.py lines 164-169
WriteEmptyPortfolio ==
    /\ pc = "merge"
    /\ inventory_df = << >>
    /\ stderr' = stderr \cup {"inventory_empty"}
    /\ portfolio_file' = empty_portfolio(portfolio_file)
    /\ etl' = "returned"
    /\ pc' = AfterETL
    /\ UNCHANGED << inputs, inventory_order, lookup_order, inventory_df, all_lookup_df, lookup_df,
                    summary, total_portfolio_value, most_valuable_card, stdout >>

\* update_portfolio.py lines 172-201
MergeAndWrite ==
    /\ pc = "merge"
    /\ inventory_df # << >>
    /\ portfolio_file' = to_csv(final_cols, final_df(inventory_df, lookup_df))
    /\ stdout' = stdout \cup {"wrote_portfolio"}
    /\ etl' = "returned"
    /\ pc' = AfterETL
    /\ UNCHANGED << inputs, inventory_order, lookup_order, inventory_df, all_lookup_df, lookup_df,
                    summary, total_portfolio_value, most_valuable_card, stderr >>

\* pipeline.py lines 17-18: the narration, then generate_summary.main()
PipelineStep2 ==
    /\ pc = "pipeline_step2"
    /\ stderr' = stderr \cup {"step2"}
    /\ pc' = "generate_summary"
    /\ UNCHANGED << inputs, portfolio_file, inventory_order, lookup_order,
                    inventory_df, all_lookup_df, lookup_df, etl, summary, total_portfolio_value,
                    most_valuable_card, stdout >>

\* generate_summary.py lines 10-12: sys.exit(1)
SummaryFileNotFound ==
    /\ pc = "generate_summary"
    /\ ~Exists(portfolio_file)
    /\ stderr' = stderr \cup {"file_not_found"}
    /\ summary' = "exit1"
    /\ pc' = "halt"
    /\ UNCHANGED << inputs, portfolio_file, inventory_order, lookup_order,
                    inventory_df, all_lookup_df, lookup_df, etl, total_portfolio_value,
                    most_valuable_card, stdout >>

\* generate_summary.py lines 15-19: sys.exit(1)
SummaryReadError ==
    /\ pc = "generate_summary"
    /\ Exists(portfolio_file)
    /\ ReadCsvFails(portfolio_file)
    /\ stderr' = stderr \cup {"could_not_read"}
    /\ summary' = "exit1"
    /\ pc' = "halt"
    /\ UNCHANGED << inputs, portfolio_file, inventory_order, lookup_order,
                    inventory_df, all_lookup_df, lookup_df, etl, total_portfolio_value,
                    most_valuable_card, stdout >>

\* generate_summary.py lines 22-24
SummaryNoData ==
    /\ pc = "generate_summary"
    /\ Exists(portfolio_file)
    /\ ~ReadCsvFails(portfolio_file)
    /\ IsEmpty(read_csv(portfolio_file))
    /\ stdout' = stdout \cup {"no_data"}
    /\ summary' = "returned"
    /\ pc' = AfterSummary
    /\ UNCHANGED << inputs, portfolio_file, inventory_order, lookup_order,
                    inventory_df, all_lookup_df, lookup_df, etl, total_portfolio_value,
                    most_valuable_card, stderr >>

\* generate_summary.py lines 28-39
SummaryCompute ==
    /\ pc = "generate_summary"
    /\ Exists(portfolio_file)
    /\ ~ReadCsvFails(portfolio_file)
    /\ ~IsEmpty(read_csv(portfolio_file))
    /\ LET df == read_csv(portfolio_file)
       IN  /\ total_portfolio_value' = total_value(df)
           /\ most_valuable_card' = most_valuable(df)
           /\ stderr' = IF "card_market_value" \in df.columns THEN stderr
                        ELSE stderr \cup {"no_value_column"}
    /\ summary' = "running"
    /\ pc' = "report"
    /\ UNCHANGED << inputs, portfolio_file, inventory_order, lookup_order,
                    inventory_df, all_lookup_df, lookup_df, etl, stdout >>

\* generate_summary.py lines 42-57, printed to the end
SummaryReport ==
    /\ pc = "report"
    /\ ~ReportRaises(read_csv(portfolio_file), most_valuable_card)
    /\ stdout' = stdout \cup {"total"}
                   \cup (IF most_valuable_card # 0 THEN {"most_valuable"}
                         ELSE {"could_not_determine"})
    /\ summary' = "returned"
    /\ pc' = AfterSummary
    /\ UNCHANGED << inputs, portfolio_file, inventory_order, lookup_order,
                    inventory_df, all_lookup_df, lookup_df, etl, total_portfolio_value,
                    most_valuable_card, stderr >>

\* generate_summary.py lines 42-52, when the most valuable row has no
\* card_name or card_id: KeyError after the total was printed
SummaryReportRaises ==
    /\ pc = "report"
    /\ ReportRaises(read_csv(portfolio_file), most_valuable_card)
    /\ stdout' = stdout \cup {"total"}
    /\ summary' = "raised"
    /\ pc' = "halt"
    /\ UNCHANGED << inputs, portfolio_file, inventory_order, lookup_order,
                    inventory_df, all_lookup_df, lookup_df, etl, total_portfolio_value,
                    most_valuable_card, stderr >>

\* pipeline.py line 21
PipelineComplete ==
    /\ pc = "pipeline_end"
    /\ stderr' = stderr \cup {"pipeline_complete"}
    /\ pc' = "halt"
    /\ UNCHANGED << inputs, portfolio_file, inventory_order, lookup_order,
                    inventory_df, all_lookup_df, lookup_df, etl, summary, total_portfolio_value,
                    most_valuable_card, stdout >>

Next ==
    \/ PipelineStart
    \/ LoadInventory
    \/ LoadLookup
    \/ LoadLookupRaises
    \/ WriteEmptyPortfolio
    \/ MergeAndWrite
    \/ PipelineStep2
    \/ SummaryFileNotFound
    \/ SummaryReadError
    \/ SummaryNoData
    \/ SummaryCompute
    \/ SummaryReport
    \/ SummaryReportRaises
    \/ PipelineComplete

Spec == Init /\ [][Next]_vars

(***************************************************************************)
(* What the claims speak of, read from the inputs and not from the loaders.*)
(***************************************************************************)
\* both loaders have returned
Loaded == etl \in {"running", "returned"} /\ pc # "load_lookup"

\* update_portfolio has written its table of at least one row
Written == etl = "returned" /\ inventory_df # << >>

\* the documents json.load reads as an object with records in "data"
GoodDocs == { f \in DOMAIN lookup_dir :
                lookup_dir[f].kind = "object" /\ lookup_dir[f].has_data
                /\ lookup_dir[f].data # << >> }

\* the source entries of the lookup directory: document and position
Entries == UNION { { << f, i >> : i \in 1..Len(lookup_dir[f].data) } : f \in GoodDocs }

Entry(e) == lookup_dir[e[1]].data[e[2]]

\* the card identifiers that occur in the lookup documents
LookupIds == { Entry(e)["id"] : e \in { x \in Entries : "id" \in DOMAIN Entry(x) } }

\* the price rule of the specification, on one source entry
ExpectedPrice(rec) ==
    IF holo_col \in DOMAIN rec /\ rec[holo_col] # 0 THEN rec[holo_col]
    ELSE IF normal_col \in DOMAIN rec /\ rec[normal_col] # 0 THEN rec[normal_col]
    ELSE 0

\* the cell of a row of a table under one of the names, "" without the column
RawCell(table, row, names) ==
    IF names \cap table.header = {} THEN << >>
    ELSE row[CHOOSE c \in names : c \in table.header]

\* the (set_id, card_number) cells of the rows of the readable tables, in the
\* order the tables were discovered
RECURSIVE RawInventory(_)
RawInventory(order) ==
    IF order = << >> THEN << >>
    ELSE LET t == inventory_dir[Head(order)]
         IN  (IF t.kind # "csv" THEN << >>
              ELSE [ i \in 1..Len(t.rows) |->
                       << RawCell(t, t.rows[i], {"set_id"}),
                          RawCell(t, t.rows[i], {"card_number", "number"}) >> ])
             \o RawInventory(Tail(order))

\* trim(set_id) + "-" + trim(card_number), with trim written out on its own
Trim(s) ==
    IF \A i \in 1..Len(s) : s[i] = " " THEN << >>
    ELSE SubSeq(s, CHOOSE i \in 1..Len(s) : s[i] # " " /\ \A j \in 1..(i - 1) : s[j] = " ",
                   CHOOSE i \in 1..Len(s) : s[i] # " " /\ \A j \in (i + 1)..Len(s) : s[j] = " ")

ExpectedId(cells) == Trim(cells[1]) \o <<"-">> \o Trim(cells[2])

(***************************************************************************)
(* C1: whenever update_portfolio has written the table for a non-empty     *)
(* inventory, the table has exactly as many rows as the loaded inventory,  *)
(* which has exactly the data rows of the readable inventory tables: the   *)
(* left join drops no inventory row and multiplies none, whatever          *)
(* duplicates the lookup documents or the inventory hold.                  *)
(***************************************************************************)
C1_RowCountPreserved ==
    Written =>
        /\ portfolio_file.kind = "csv"
        /\ Len(portfolio_file.rows) = Len(inventory_df)
        /\ Len(inventory_df) = Len(RawInventory(inventory_order))

\* two inventory rows of one card_id, whose card_id two lookup entries carry
C1_Witness ==
    /\ Written
    /\ Len(portfolio_file.rows) = 2
    /\ portfolio_file.rows[1].card_id = portfolio_file.rows[2].card_id
    /\ \E e1, e2 \in Entries :
          /\ e1 # e2
          /\ "id" \in DOMAIN Entry(e1) /\ "id" \in DOMAIN Entry(e2)
          /\ Entry(e1)["id"] = portfolio_file.rows[1].card_id
          /\ Entry(e2)["id"] = portfolio_file.rows[1].card_id

(***************************************************************************)
(* C2: when _load_lookup_data has returned, every card_id that occurs in a *)
(* loaded lookup document has exactly one row in the returned table, and   *)
(* that row's card_market_value is the largest value derived from the      *)
(* source entries, of all documents, that carry the card_id.               *)
(***************************************************************************)
C2_OneRowPerIdWithMaxValue ==
    Loaded =>
        \A id \in LookupIds :
            LET rows == { j \in 1..Len(lookup_df) : lookup_df[j].card_id = id }
                values == { ExpectedPrice(Entry(e)) :
                              e \in { x \in Entries : "id" \in DOMAIN Entry(x)
                                                      /\ Entry(x)["id"] = id } }
            IN  /\ Cardinality(rows) = 1
                /\ \A j \in rows :
                      /\ lookup_df[j].card_market_value \in values
                      /\ \A v \in values : v <= lookup_df[j].card_market_value

\* one card_id in two documents, the later one discovered with the larger value
C2_Witness ==
    /\ Loaded
    /\ Len(lookup_order) = 2
    /\ \E e1, e2 \in Entries :
          /\ e1[1] = lookup_order[1] /\ e2[1] = lookup_order[2]
          /\ "id" \in DOMAIN Entry(e1) /\ "id" \in DOMAIN Entry(e2)
          /\ Entry(e1)["id"] = Entry(e2)["id"]
          /\ ExpectedPrice(Entry(e1)) < ExpectedPrice(Entry(e2))
          /\ \E j \in 1..Len(lookup_df) :
                /\ lookup_df[j].card_id = Entry(e2)["id"]
                /\ lookup_df[j].card_market_value = ExpectedPrice(Entry(e2))

\* the documents that contributed a frame, in the order of discovery
RECURSIVE GoodInOrder(_)
GoodInOrder(order) ==
    IF order = << >> THEN << >>
    ELSE (IF Head(order) \in GoodDocs THEN << Head(order) >> ELSE << >>)
         \o GoodInOrder(Tail(order))

(***************************************************************************)
(* C3: for every record of every loaded lookup document the derived        *)
(* card_market_value is the holofoil market price when the record has one  *)
(* that is not zero, otherwise the normal market price when the record has *)
(* one that is not zero, otherwise 0; also in a document where some        *)
(* records carry a price field and others do not.                          *)
(***************************************************************************)
C3_PricePrecedence ==
    Loaded =>
        LET docs == GoodInOrder(lookup_order)
        IN  /\ Len(all_lookup_df) = Len(docs)
            /\ \A k \in 1..Len(docs) :
                  /\ Len(all_lookup_df[k]) = Len(lookup_dir[docs[k]].data)
                  /\ \A i \in 1..Len(all_lookup_df[k]) :
                        all_lookup_df[k][i].card_market_value
                            = ExpectedPrice(lookup_dir[docs[k]].data[i])

\* a document in which one record has a holofoil price and a normal price, and
\* another has a normal price only
C3_Witness ==
    /\ Loaded
    /\ \E f \in GoodDocs :
          /\ Len(lookup_dir[f].data) = 2
          /\ {holo_col, normal_col} \subseteq DOMAIN lookup_dir[f].data[1]
          /\ lookup_dir[f].data[1][holo_col] # 0
          /\ lookup_dir[f].data[1][normal_col] # 0
          /\ holo_col \notin DOMAIN lookup_dir[f].data[2]
          /\ normal_col \in DOMAIN lookup_dir[f].data[2]
          /\ lookup_dir[f].data[2][normal_col] # 0
          /\ all_lookup_df # << >>

(***************************************************************************)
(* C4: whenever update_portfolio has written the table for a non-empty     *)
(* inventory, every inventory row is in it in its place, with card_id      *)
(* trim(set_id) + "-" + trim(card_number); and a row whose card_id is the  *)
(* card_id of no lookup record has set_name "NOT_FOUND" and                *)
(* card_market_value 0.0.  This includes an empty lookup table.            *)
(***************************************************************************)
C4_UnmatchedRowsFilled ==
    Written =>
        LET raw == RawInventory(inventory_order)
            out == portfolio_file.rows
        IN  /\ Len(out) = Len(raw)
            /\ \A i \in 1..Len(out) :
                  /\ out[i].card_id = ExpectedId(raw[i])
                  /\ out[i].card_id \notin LookupIds =>
                        /\ out[i].set_name = <<"N", "O", "T", "_", "F", "O", "U", "N", "D">>
                        /\ out[i].card_market_value = 0

\* no lookup record at all, and an inventory row whose cells carry whitespace
C4_Witness ==
    /\ Written
    /\ LookupIds = {}
    /\ \E i \in 1..Len(portfolio_file.rows) :
          /\ RawInventory(inventory_order)[i][1] = <<" ", "a", " ">>
          /\ portfolio_file.rows[i].card_id = <<"a", "-", "1">>
          /\ portfolio_file.rows[i].set_name = NOT_FOUND

\* the table update_portfolio writes when it finds the files of the two
\* directories in the given orders; no table when it raises
Portfolio(io, lo) ==
    IF _load_lookup_data(lookup_dir, lo).raised THEN NoFile
    ELSE IF _load_inventory_data(inventory_dir, io) = << >> THEN empty_portfolio(NoFile)
    ELSE to_csv(final_cols, final_df(_load_inventory_data(inventory_dir, io),
                                     _load_lookup_data(lookup_dir, lo).df))

\* the rows of a table as a multiset: each row with the number of its copies
RowBag(rows) ==
    [ r \in Range(rows) |-> Cardinality({ i \in 1..Len(rows) : rows[i] = r }) ]

(***************************************************************************)
(* C5: when the loaded inventory is empty, update_portfolio joins nothing, *)
(* writes the table of the ten-column header and no rows, prints the       *)
(* error-level diagnostic and returns without raising, whatever the lookup *)
(* directory contains.                                                     *)
(***************************************************************************)
C5_EmptyInventoryReturns ==
    (inventory_df = << >> /\ etl \in {"returned", "raised"}) =>
        /\ etl = "returned"
        /\ portfolio_file = File("csv", final_cols, << >>)
        /\ "inventory_empty" \in stderr
        /\ "wrote_portfolio" \notin stdout

(***************************************************************************)
(* C6: a bad source file is skipped and nothing else is lost: neither      *)
(* loader raises, a file that cannot be parsed or has no usable data       *)
(* contributes no record, and every record of every other file is loaded.  *)
(***************************************************************************)
C6_BadFilesSkipped ==
    (etl # "idle" /\ pc # "load_lookup") =>
        /\ etl # "raised"
        /\ Len(inventory_df) = Len(RawInventory(inventory_order))
        /\ Len(all_lookup_df) = Cardinality(GoodDocs)
        /\ \A id \in LookupIds : \E j \in 1..Len(lookup_df) : lookup_df[j].card_id = id

(***************************************************************************)
(* C7: the table update_portfolio writes does not depend on the order in   *)
(* which the files of the two directories are discovered: every order      *)
(* gives the header and the multiset of rows of the table that was         *)
(* written, also when lookup entries of one card_id tie on the largest     *)
(* value and differ in set_name.                                           *)
(***************************************************************************)
C7_DiscoveryOrderIrrelevant ==
    etl = "returned" =>
        \A io \in Perms(DOMAIN inventory_dir) : \A lo \in Perms(DOMAIN lookup_dir) :
            /\ Portfolio(io, lo).kind = "csv"
            /\ Portfolio(io, lo).header = portfolio_file.header
            /\ RowBag(Portfolio(io, lo).rows) = RowBag(portfolio_file.rows)

\* the portfolio table as generate_summary has read it
Read == read_csv(portfolio_file)

\* generate_summary went past its empty-table check on a table with a value column
Computed ==
    /\ summary \in {"running", "returned", "raised"}
    /\ "no_data" \notin stdout
    /\ "card_market_value" \in Read.columns

\* the value of row i of the table on disk
Value(i) == portfolio_file.rows[i].card_market_value

\* the sum of the values of the first n rows of the table on disk
RECURSIVE ValueSum(_)
ValueSum(n) == IF n = 0 THEN 0 ELSE ValueSum(n - 1) + Value(n)

(***************************************************************************)
(* C8: on a table with at least one row and a card_market_value column,    *)
(* generate_summary computes as total the sum of card_market_value over    *)
(* all rows and as most valuable card the first row, in row order, whose   *)
(* card_market_value is the largest; a report that is printed to its end   *)
(* carries both.                                                           *)
(***************************************************************************)
C8_TotalAndFirstMaximum ==
    Computed =>
        /\ total_portfolio_value = ValueSum(Len(portfolio_file.rows))
        /\ most_valuable_card \in 1..Len(portfolio_file.rows)
        /\ \A j \in 1..Len(portfolio_file.rows) : Value(j) <= Value(most_valuable_card)
        /\ \A j \in 1..(most_valuable_card - 1) : Value(j) < Value(most_valuable_card)
        /\ summary = "returned" => {"total", "most_valuable"} \subseteq stdout

\* three rows, the largest value in the second and in the third
C8_Witness ==
    /\ Computed
    /\ summary = "returned"
    /\ Len(portfolio_file.rows) = 3
    /\ Value(1) = 1 /\ Value(2) = 2 /\ Value(3) = 2
    /\ most_valuable_card = 2
    /\ total_portfolio_value = 5

(***************************************************************************)
(* C9: generate_summary ends in failure exactly when the portfolio file    *)
(* does not exist or cannot be parsed; an empty table gives the "no data"  *)
(* message and no numbers, and a table that lacks card_market_value,       *)
(* card_name or card_id is reported with a default and never aborts.       *)
(***************************************************************************)
C9_FailureOnlyOnMissingOrUnparseable ==
    summary \in {"returned", "exit1", "raised"} =>
        /\ summary # "returned" <=> (~Exists(portfolio_file) \/ ReadCsvFails(portfolio_file))
        /\ "no_data" \in stdout => "total" \notin stdout

(***************************************************************************)
(* C10: in run_production_pipeline generate_summary starts only after      *)
(* update_portfolio has returned, and then the portfolio table is on disk  *)
(* with exactly the ten-column header; so generate_summary never fails on  *)
(* a missing or unparseable file, with an empty inventory it ends on the   *)
(* "no data" path, and when update_portfolio raises it never runs.         *)
(***************************************************************************)
C10_SummaryAfterETL ==
    entry = "pipeline" =>
        /\ (pc \in {"pipeline_step2", "generate_summary", "report", "pipeline_end"}
              \/ summary # "idle") =>
              /\ etl = "returned"
              /\ portfolio_file.kind = "csv"
              /\ portfolio_file.header = final_cols
        /\ etl = "returned" =>
              /\ portfolio_file.kind = "csv"
              /\ portfolio_file.header = final_cols
        /\ summary # "exit1"
        /\ {"file_not_found", "could_not_read"} \cap stderr = {}
        /\ (inventory_df = << >> /\ summary \in {"returned", "raised"}) =>
              /\ summary = "returned"
              /\ "no_data" \in stdout
              /\ "total" \notin stdout
        /\ etl = "raised" => summary = "idle" /\ pc = "halt" /\ "step2" \notin stderr

\* the pipeline on an empty inventory: the report ended on the "no data" path
C10_Witness ==
    /\ entry = "pipeline"
    /\ inventory_df = << >>
    /\ etl = "returned"
    /\ summary = "returned"
    /\ "no_data" \in stdout
    /\ pc = "halt"

=============================================================================
